---- MODULE Spec2Model ----
(***************************************************************************)
(* cow::vector<T, TLock, TLocker, TAlloc> of src/cow.h: a copy-on-write    *)
(* vector.  A container holds a shared_ptr (_storage) to a std::vector     *)
(* (the Storage) and a mutex (_lock).  Writers change the Storage in place *)
(* when _storage.use_count() == 1 and build a new Storage otherwise;       *)
(* readers (iterators, read-only views, exists/find temporaries, sibling   *)
(* containers) hold their own shared_ptr to the Storage they captured.     *)
(*                                                                         *)
(* The heap of Storages is modelled explicitly: a Storage is an id in      *)
(* StorageIds, heap[id] is its element sequence, and use_count is counted  *)
(* from the shared_ptrs that exist in the state.  reserve() calls only set *)
(* capacity and are not modelled.                                          *)
(***************************************************************************)
EXTENDS Integers, Sequences, FiniteSets, TLC

\* ------------------------------------------------------------------ bounds
MaxLen == 2          \* a push is not issued on a container of MaxLen elements
MaxStorages == 2     \* Storages allocated (and kept) over one behaviour

\* The container never looks into an element; only the caller's predicate
\* does.  The elements are the two values example.cpp stores first.
Val == {1, 2}
Preds == SUBSET Val                 \* a predicate is the set of values it accepts
Containers == {"A", "B"}
Threads == {"t1", "t2"}
Snaps == {"s1"}                     \* iterator / view objects that may exist
StorageIds == 1..MaxStorages
NoThread == "none"

Null == 0            \* an empty shared_ptr (TStoragePtr())
EmptyStorage == -1   \* readonly_vector::_empty_storage, the shared empty Storage
Default == 0         \* the default_value handed to find_first / find_last
Crash == -2          \* outcome of dereferencing a null shared_ptr: the process dies
Thrown == -3         \* outcome of a method left by an exception
OutOfRange == -4     \* std::out_of_range thrown by std::vector::at

VARIABLES
    constructed,     \* constructed[c]: container c exists
    _storage,        \* _storage[c]: the container's TStoragePtr (Null or an id)
    _lock,           \* _lock[c]: the thread inside a critical section of c
    heap,            \* heap[id]: contents of Storage id
    nextId,          \* next Storage id operator new hands out
    pc,              \* pc[t]: where thread t is inside a multi-step operation
    tmp,             \* tmp[t]: locals of that operation (this, _Right, storage_copy)
    snap,            \* snap[s]: iterator or readonly_vector object s
    published,       \* published[id]: Storage id has had two or more holders
    ref,             \* ref[c]: plain reference sequence, same operations applied
    last             \* the operation performed by the latest step, with its result

vars == <<constructed, _storage, _lock, heap, nextId, pc, tmp, snap,
          published, ref, last>>

\* ------------------------------------------------------------ small helpers
\* cap records what the source held when copy() read its pointer; op and ret
\* are the method a thread is inside and the value it is going to return.
NoTmp == [c |-> "none", src |-> "none", h |-> Null, cap |-> <<>>,
          op |-> "none", ret |-> 0]
NoSnap == [kind |-> "none", h |-> Null, it |-> 0, end |-> 0,
           cap |-> <<>>, out |-> <<>>]

\* The method a step completed on container c, what it returned (a count, a
\* bool as 0/1, an element) and the branch of the method that ran.
MkLast(op, c, ret, branch) ==
    [op |-> op, c |-> c, ret |-> ret, branch |-> branch]

\* Steps that are not a complete method call leave no result behind.
NoLast == MkLast("none", "none", 0, "none")

BoolToInt(b) == IF b THEN 1 ELSE 0

\* Program points at which a thread's local storage_copy, or its local
\* newStorage, holds a reference.
HoldsCopy == {"copied", "assign_locked", "assigned", "captured", "built"}

\* Number of shared_ptrs to Storage h among containers, snapshots and locals.
HoldersIn(st, sn, p, tm, h) ==
      Cardinality({c \in Containers : st[c] = h})
    + Cardinality({x \in Snaps : sn[x].kind # "none" /\ sn[x].h = h})
    + Cardinality({t \in Threads : p[t] \in HoldsCopy /\ tm[t].h = h})

\* shared_ptr::use_count(): 0 for an empty pointer.
UseCount(h) ==
    IF h = Null THEN 0 ELSE HoldersIn(_storage, snap, pc, tmp, h)

\* Contents of the Storage a non-null pointer refers to.
StorageOf(h) == IF h = EmptyStorage THEN <<>> ELSE heap[h]

\* What a reader of container c sees: a null _storage is the empty sequence.
Contents(c) == IF _storage[c] = Null THEN <<>> ELSE heap[_storage[c]]

\* A faulty use_count test: writes in place whenever a Storage exists.
SoleHolderUnchecked(h) == h # Null

\* `_storage.use_count() == 1`: nobody else holds the Storage.
SoleHolder(h) == UseCount(h) = 1

\* ------------------------------------------------ std::vector operations
\* A faulty insert-at-begin that appends instead.
InsertFrontAtEnd(s, v) == Append(s, v)

\* _storage->insert(_storage->begin(), t)
InsertFront(s, v) == <<v>> \o s

\* std::vector::erase(it) for the element at index i.
Erase(s, i) == SubSeq(s, 1, i - 1) \o SubSeq(s, i + 1, Len(s))

RECURSIVE EraseLoopSkipping(_, _, _, _)
\* A faulty erase loop that advances past the element following an erase.
EraseLoopSkipping(s, it, count, P) ==
    IF it > Len(s) THEN [store |-> s, count |-> count]
    ELSE IF s[it] \notin P THEN EraseLoopSkipping(s, it + 1, count, P)
    ELSE EraseLoopSkipping(Erase(s, it), it + 1, count + 1, P)

RECURSIVE EraseLoop(_, _, _, _)
\* remove, sole-holder branch: for (it = begin; it != end;) erase or ++it.
EraseLoop(s, it, count, P) ==
    IF it > Len(s) THEN [store |-> s, count |-> count]
    ELSE IF s[it] \notin P THEN EraseLoop(s, it + 1, count, P)
    ELSE EraseLoop(Erase(s, it), it, count + 1, P)

RECURSIVE CopyLoop(_, _, _, _, _)
\* remove, shared branch: for (elem : *_storage) count or push_back to newStorage.
CopyLoop(s, i, new, count, P) ==
    IF i > Len(s) THEN [store |-> new, count |-> count]
    ELSE IF s[i] \in P THEN CopyLoop(s, i + 1, new, count + 1, P)
    ELSE CopyLoop(s, i + 1, Append(new, s[i]), count, P)

RECURSIVE FindIf(_, _, _)
\* std::find_if(begin, end, predicate): index of the first match, Len+1 for end().
FindIf(s, i, P) ==
    IF i > Len(s) THEN Len(s) + 1
    ELSE IF s[i] \in P THEN i ELSE FindIf(s, i + 1, P)

\* A faulty reverse search that walks from the front.
FindIfForward(s, i, P) ==
    IF FindIf(s, 1, P) <= Len(s) THEN FindIf(s, 1, P) ELSE 0

RECURSIVE FindIfReverse(_, _, _)
\* std::find_if(rbegin, rend, predicate): index of the last match, 0 for rend().
FindIfReverse(s, i, P) ==
    IF i < 1 THEN 0
    ELSE IF s[i] \in P THEN i ELSE FindIfReverse(s, i - 1, P)

\* ----------------------------------------- results of the mutating methods
\* Each *Res operator computes what the method body does to the container's
\* pointer and to the heap: [h: new _storage, heap, next: new nextId,
\* ret: returned value, branch: which branch of the method ran].
Res(h, hp, next, ret, branch) ==
    [h |-> h, heap |-> hp, next |-> next, ret |-> ret, branch |-> branch]

\* The heap after `new TStorage()` at id has been filled with s.
Alloc(id, s) == [h \in StorageIds |-> IF h = id THEN s ELSE heap[h]]

\* if (use_count() == 1) insert(begin(), t) else newStorage = t + old.
push_frontRes(c, v) ==
    LET h == _storage[c] IN
    IF SoleHolder(h)
    THEN Res(h, [heap EXCEPT ![h] = InsertFront(@, v)], nextId, 0, "inplace")
    ELSE LET new == IF h = Null THEN <<v>> ELSE <<v>> \o heap[h]
         IN  Res(nextId, Alloc(nextId, new), nextId + 1, 0, "copy")

\* if (use_count() == 1) push_back(t) else newStorage = old + t.
push_backRes(c, v) ==
    LET h == _storage[c] IN
    IF SoleHolder(h)
    THEN Res(h, [heap EXCEPT ![h] = Append(@, v)], nextId, 0, "inplace")
    ELSE LET new == IF h = Null THEN <<v>> ELSE Append(heap[h], v)
         IN  Res(nextId, Alloc(nextId, new), nextId + 1, 0, "copy")

\* emplace_back constructs the element in place; otherwise as push_back.
emplace_backRes(c, v) ==
    LET h == _storage[c] IN
    IF SoleHolder(h)
    THEN Res(h, [heap EXCEPT ![h] = Append(@, v)], nextId, 0, "inplace")
    ELSE LET new == IF h = Null THEN <<v>> ELSE Append(heap[h], v)
         IN  Res(nextId, Alloc(nextId, new), nextId + 1, 0, "copy")

\* A faulty remove whose copy branch installs newStorage even when nothing
\* matched.
removeAlwaysSwapping(c, P) ==
    LET h == _storage[c] IN
    IF h = Null \/ heap[h] = <<>>
    THEN Res(h, heap, nextId, 0, "none")
    ELSE IF SoleHolder(h)
    THEN LET r == EraseLoop(heap[h], 1, 0, P)
         IN  Res(h, [heap EXCEPT ![h] = r.store], nextId, r.count, "inplace")
    ELSE LET r == CopyLoop(heap[h], 1, <<>>, 0, P)
         IN  IF r.store = <<>>
             THEN Res(Null, heap, nextId, r.count, "copy")
             ELSE Res(nextId, Alloc(nextId, r.store), nextId + 1,
                      r.count, "copy")

\* remove(predicate): early return, erase loop in place, or filtered copy.
removeRes(c, P) ==
    LET h == _storage[c] IN
    IF h = Null \/ heap[h] = <<>>
    THEN Res(h, heap, nextId, 0, "none")
    ELSE IF SoleHolder(h)
    THEN LET r == EraseLoop(heap[h], 1, 0, P)
         IN  Res(h, [heap EXCEPT ![h] = r.store], nextId, r.count, "inplace")
    ELSE LET r == CopyLoop(heap[h], 1, <<>>, 0, P)
         IN  IF Len(heap[h]) = Len(r.store)
             THEN Res(h, heap, nextId, r.count, "copy")
             ELSE IF r.store = <<>>
             THEN Res(Null, heap, nextId, r.count, "copy")
             ELSE Res(nextId, Alloc(nextId, r.store), nextId + 1,
                      r.count, "copy")

\* A faulty removeAt whose copy branch forgets the elements before it.
removeAtDroppingPrefix(c, it) ==
    LET h == _storage[c]
        s == heap[h]
    IN  IF it = Len(s) + 1
        THEN Res(h, heap, nextId, 0, "none")
        ELSE IF Len(s) = 1
        THEN Res(Null, heap, nextId, 1, "reset")
        ELSE IF SoleHolder(h)
        THEN Res(h, [heap EXCEPT ![h] = Erase(s, it)], nextId, 1, "inplace")
        ELSE Res(nextId, Alloc(nextId, SubSeq(s, it + 1, Len(s))),
                 nextId + 1, 1, "copy")

\* removeAt(it): it is an index into *_storage, Len+1 standing for end().
removeAt(c, it) ==
    LET h == _storage[c]
        s == heap[h]
    IN  IF it = Len(s) + 1
        THEN Res(h, heap, nextId, 0, "none")
        ELSE IF Len(s) = 1
        THEN Res(Null, heap, nextId, 1, "reset")
        ELSE IF SoleHolder(h)
        THEN Res(h, [heap EXCEPT ![h] = Erase(s, it)], nextId, 1, "inplace")
        ELSE LET prefix == IF it # 1 THEN SubSeq(s, 1, it - 1) ELSE <<>>
                 suffix == IF it + 1 # Len(s) + 1
                           THEN SubSeq(s, it + 1, Len(s)) ELSE <<>>
             IN  Res(nextId, Alloc(nextId, prefix \o suffix),
                     nextId + 1, 1, "copy")

\* removeFirst(predicate): forward find_if, then removeAt.
removeFirstRes(c, P) ==
    LET h == _storage[c] IN
    IF h = Null \/ heap[h] = <<>>
    THEN Res(h, heap, nextId, 0, "none")
    ELSE removeAt(c, FindIf(heap[h], 1, P))

\* removeLast(predicate): reverse find_if, then removeAt(--rit.base()).
removeLastRes(c, P) ==
    LET h == _storage[c] IN
    IF h = Null \/ heap[h] = <<>>
    THEN Res(h, heap, nextId, 0, "none")
    ELSE LET rit == FindIfReverse(heap[h], Len(heap[h]), P)
         IN  IF rit = 0 THEN Res(h, heap, nextId, 0, "none")
             ELSE removeAt(c, rit)

\* A faulty clear() that empties the Storage instead of dropping the pointer.
clearInPlace(c) ==
    IF _storage[c] = Null THEN Res(Null, heap, nextId, 0, "reset")
    ELSE Res(_storage[c], [heap EXCEPT ![_storage[c]] = <<>>], nextId, 0,
             "reset")

\* clear(): _storage.reset().
clearRes(c) == Res(Null, heap, nextId, 0, "reset")

\* --------------------------------- the same operations on a plain sequence
RefRemove(s, P) == SelectSeq(s, LAMBDA x : x \notin P)

RefRemoveFirst(s, P) ==
    IF \E i \in 1..Len(s) : s[i] \in P
    THEN LET i == CHOOSE k \in 1..Len(s) :
                      s[k] \in P /\ \A j \in 1..(k - 1) : s[j] \notin P
         IN  [k \in 1..(Len(s) - 1) |-> IF k < i THEN s[k] ELSE s[k + 1]]
    ELSE s

RefRemoveLast(s, P) ==
    IF \E i \in 1..Len(s) : s[i] \in P
    THEN LET i == CHOOSE k \in 1..Len(s) :
                      s[k] \in P /\ \A j \in (k + 1)..Len(s) : s[j] \notin P
         IN  [k \in 1..(Len(s) - 1) |-> IF k < i THEN s[k] ELSE s[k + 1]]
    ELSE s

\* ------------------------------------------------------- state bookkeeping
\* After a step: a Storage nobody holds is destroyed (its slot is blanked), and
\* published records every Storage that has had two or more holders.  Evaluated
\* after the step's other variables are set.
Settle(hp) ==
    LET n == [h \in StorageIds |-> HoldersIn(_storage', snap', pc', tmp', h)]
    IN  /\ heap' = [h \in StorageIds |-> IF n[h] > 0 THEN hp[h] ELSE <<>>]
        /\ published' = [h \in StorageIds |->
                            n[h] >= 2 \/ (n[h] = 1 /\ published[h])]

\* Thread t may start a method of container c.
CanCall(t, c) == pc[t] = "idle" /\ constructed[c]

\* A faulty lock that is granted to everybody at once.
AcquireAlways(c) == TRUE

\* TLocker locker(_lock) is granted: nobody is inside a critical section of c.
Acquire(c) == _lock[c] = NoThread

\* Some thread may start a method of container c.
Caller(c) == \E t \in Threads : CanCall(t, c)

\* A mutating method of c, run by some thread as one critical section of c's
\* lock.
Mutate(c, op, res, newRef) ==
    /\ Caller(c)
    /\ Acquire(c)
    /\ res.next <= MaxStorages + 1
    /\ _storage' = [_storage EXCEPT ![c] = res.h]
    /\ nextId' = res.next
    /\ ref' = [ref EXCEPT ![c] = newRef]
    /\ last' = MkLast(op, c, res.ret, res.branch)
    /\ UNCHANGED <<constructed, _lock, pc, tmp, snap>>
    /\ Settle(res.heap)

\* ------------------------------------------------------- mutating methods
push_front(c, v) ==
    /\ Len(Contents(c)) < MaxLen
    /\ Mutate(c, "push_front", push_frontRes(c, v), <<v>> \o ref[c])

push_back(c, v) ==
    /\ Len(Contents(c)) < MaxLen
    /\ Mutate(c, "push_back", push_backRes(c, v), Append(ref[c], v))

emplace_back(c, v) ==
    /\ Len(Contents(c)) < MaxLen
    /\ Mutate(c, "emplace_back", emplace_backRes(c, v), Append(ref[c], v))

remove(c, P) ==
    Mutate(c, "remove", removeRes(c, P), RefRemove(ref[c], P))

removeFirst(c, P) ==
    Mutate(c, "removeFirst", removeFirstRes(c, P), RefRemoveFirst(ref[c], P))

removeLast(c, P) ==
    Mutate(c, "removeLast", removeLastRes(c, P), RefRemoveLast(ref[c], P))

clear(c) ==
    Mutate(c, "clear", clearRes(c), <<>>)

\* ----------------------------------------------- construction and copying
\* vector(): the second container is default-constructed.
construct(c) ==
    /\ ~constructed[c]
    /\ constructed' = [constructed EXCEPT ![c] = TRUE]
    /\ last' = NoLast
    /\ UNCHANGED <<_storage, _lock, heap, nextId, pc, tmp, snap, published, ref>>

\* vector(const TVector& array) : _storage(array.copy()).  copy() is one
\* critical section of the source's lock; its result initialises _storage.
copy_construct(c, src) ==
    /\ ~constructed[c]
    /\ Caller(src)
    /\ Acquire(src)
    /\ constructed' = [constructed EXCEPT ![c] = TRUE]
    /\ _storage' = [_storage EXCEPT ![c] = _storage[src]]
    /\ ref' = [ref EXCEPT ![c] = Contents(src)]
    /\ last' = NoLast
    /\ UNCHANGED <<_lock, nextId, pc, tmp, snap>>
    /\ Settle(heap)

\* operator=, line 48: _Right.copy() locks the source.
assign_lock_src(t, c, src) ==
    /\ CanCall(t, c)
    /\ constructed[src]
    /\ Acquire(src)
    /\ _lock' = [_lock EXCEPT ![src] = t]
    /\ pc' = [pc EXCEPT ![t] = "copy_locked"]
    /\ tmp' = [tmp EXCEPT ![t] = [NoTmp EXCEPT !.c = c, !.src = src]]
    /\ last' = NoLast
    /\ UNCHANGED <<constructed, _storage, heap, nextId, snap, published, ref>>

\* A faulty copy() that returns without releasing the source's lock.
copyKeepingLock(t) ==
    /\ pc[t] = "copy_locked"
    /\ pc' = [pc EXCEPT ![t] = "copied"]
    /\ tmp' = [tmp EXCEPT ![t].h = _storage[tmp[t].src], ![t].src = "none",
                        ![t].cap = Contents(tmp[t].src)]
    /\ last' = NoLast
    /\ UNCHANGED <<constructed, _storage, _lock, nextId, snap, ref>>
    /\ Settle(heap)

\* copy(): return _storage under the lock, then the locker releases it.
copy(t) ==
    /\ pc[t] = "copy_locked"
    /\ _lock' = [_lock EXCEPT ![tmp[t].src] = NoThread]
    /\ pc' = [pc EXCEPT ![t] = "copied"]
    /\ tmp' = [tmp EXCEPT ![t].h = _storage[tmp[t].src], ![t].src = "none",
                        ![t].cap = Contents(tmp[t].src)]
    /\ last' = NoLast
    /\ UNCHANGED <<constructed, _storage, nextId, snap, ref>>
    /\ Settle(heap)

\* operator=, line 51: TLocker locker(_lock) on the destination.
assign_lock_dst(t) ==
    /\ pc[t] = "copied"
    /\ Acquire(tmp[t].c)
    /\ _lock' = [_lock EXCEPT ![tmp[t].c] = t]
    /\ pc' = [pc EXCEPT ![t] = "assign_locked"]
    /\ last' = NoLast
    /\ UNCHANGED <<constructed, _storage, heap, nextId, tmp, snap, published,
                   ref>>

\* operator=, lines 52-53: _storage = storage_copy; the locker releases.
assign_store(t) ==
    /\ pc[t] = "assign_locked"
    /\ _storage' = [_storage EXCEPT ![tmp[t].c] = tmp[t].h]
    /\ _lock' = [_lock EXCEPT ![tmp[t].c] = NoThread]
    /\ pc' = [pc EXCEPT ![t] = "assigned"]
    /\ ref' = [ref EXCEPT ![tmp[t].c] = IF tmp[t].h = Null THEN <<>>
                                        ELSE heap[tmp[t].h]]
    /\ last' = NoLast
    /\ UNCHANGED <<constructed, nextId, tmp, snap>>
    /\ Settle(heap)

\* operator=, line 55: return *this; the local storage_copy is destroyed.
assign_return(t) ==
    /\ pc[t] = "assigned"
    /\ pc' = [pc EXCEPT ![t] = "idle"]
    /\ tmp' = [tmp EXCEPT ![t] = NoTmp]
    /\ last' = NoLast
    /\ UNCHANGED <<constructed, _storage, _lock, nextId, snap, ref>>
    /\ Settle(heap)

\* ------------------------------------------------- exists and the finds
Queries == {"exists", "find_first", "find_last"}

\* The loop of exists / find_first / find_last over sequence s.
ScanResult(op, s, P) ==
    IF op = "exists" THEN BoolToInt(FindIf(s, 1, P) <= Len(s))
    ELSE IF op = "find_first"
    THEN (IF FindIf(s, 1, P) <= Len(s) THEN s[FindIf(s, 1, P)] ELSE Default)
    ELSE (IF FindIfReverse(s, Len(s), P) >= 1
          THEN s[FindIfReverse(s, Len(s), P)] ELSE Default)

\* What the method returns when it finds nothing: false, or default_value.
NotFound(op) == IF op = "exists" THEN 0 ELSE Default

\* TStoragePtr storage_copy = copy(), the first line of exists, find_first and
\* find_last: one critical section of c's lock.  The predicate (and which of
\* the three methods it is) is first used by the scan, and is drawn there.
query_copy(t, c) ==
    /\ CanCall(t, c)
    /\ Acquire(c)
    /\ pc' = [pc EXCEPT ![t] = "captured"]
    /\ tmp' = [tmp EXCEPT ![t] = [NoTmp EXCEPT !.c = c, !.h = _storage[c]]]
    /\ last' = NoLast
    /\ UNCHANGED <<constructed, _storage, _lock, nextId, snap, ref>>
    /\ Settle(heap)

\* The outcomes of `!storage_copy || _storage->empty()` followed by the scan of
\* *storage_copy (lines 207-214, 222-229, 237-244).  _storage is the
\* container's live member, read with no lock held; with storage_copy non-null
\* and _storage null it dereferences a null pointer, after which the process
\* dies or the call returns anything.
ScanOutcomes(op, captured, live, P) ==
    IF captured = Null THEN {NotFound(op)}
    ELSE IF live = Null
    THEN {Crash} \union (IF op = "exists" THEN {0, 1} ELSE Val \union {Default})
    ELSE IF heap[live] = <<>> THEN {NotFound(op)}
    ELSE {ScanResult(op, heap[captured], P)}

\* The rest of exists / find_first / find_last, after copy() has returned.
query_scan(t, op, P) ==
    /\ pc[t] = "captured"
    /\ \E r \in ScanOutcomes(op, tmp[t].h, _storage[tmp[t].c], P) :
         /\ pc' = IF r = Crash THEN [u \in Threads |-> "crashed"]
                  ELSE [pc EXCEPT ![t] = "idle"]
         /\ tmp' = [tmp EXCEPT ![t] = NoTmp]
         /\ last' = MkLast(op, tmp[t].c, r, "none")
    /\ UNCHANGED <<constructed, _storage, _lock, nextId, snap, ref>>
    /\ Settle(heap)

\* ------------------------------------------------- iterators and views
\* iterator(): the end() iterator, bound to no Storage.
Sentinel == [NoSnap EXCEPT !.kind = "iter"]

\* A faulty operator== that compares the two iterators member by member.
IterEqMemberwise(l, r) == l.h = r.h /\ l.it = r.it

\* iterator::operator==, lines 296-312.
IterEq(l, r) ==
    IF l.h = Null
    THEN (IF r.h = Null THEN TRUE ELSE r.end = r.it)
    ELSE (IF r.h = Null THEN l.it = l.end ELSE l.it = r.it)

\* iterator(storage, storage->begin(), storage->end()), lines 253-258.
iterator(h) ==
    [kind |-> "iter", h |-> h, it |-> 1, end |-> Len(heap[h]) + 1,
     cap |-> heap[h], out |-> <<>>]

\* What begin() returns, line 329.
BeginOf(c) == IF _storage[c] # Null THEN iterator(_storage[c]) ELSE Sentinel

\* begin(): under the lock, an iterator over *_storage, or iterator() if null.
begin(c, x) ==
    /\ Caller(c)
    /\ Acquire(c)
    /\ snap[x].kind = "none"
    /\ snap' = [snap EXCEPT ![x] = BeginOf(c)]
    /\ last' = NoLast
    /\ UNCHANGED <<constructed, _storage, _lock, nextId, pc, tmp, ref>>
    /\ Settle(heap)

\* iterator::operator*, line 264: _it is a raw std::vector iterator into the
\* captured Storage.  If the Storage was shortened under it, the read is out
\* of bounds and yields anything.
Deref(i) ==
    IF i.it \in 1..Len(heap[i.h]) THEN {heap[i.h][i.it]} ELSE Val

\* iterator::operator++(), lines 272-276: the iterator after ++it.
PreIncrement(i) == [i EXCEPT !.it = @ + 1]

\* iterator::operator++(int), lines 278-282: `_it++; return *this;`.  The
\* iterator itself ends up as after ++it; what is returned is a copy of *this
\* made after _it has moved.
PostIncrement(i) == [i EXCEPT !.it = @ + 1]

\* iterator::operator--(), lines 284-288: the iterator after --it.
PreDecrement(i) == [i EXCEPT !.it = @ - 1]

\* iterator::operator--(int), lines 290-294: `_it--; return *this;`.
PostDecrement(i) == [i EXCEPT !.it = @ - 1]

\* `v = *it++` on a bound iterator that points at an element.
deref_post_increment(x) ==
    /\ snap[x].kind = "iter"
    /\ snap[x].h # Null
    /\ snap[x].it < snap[x].end
    /\ \E t \in Threads : pc[t] # "crashed"
    /\ \E v \in Deref(PostIncrement(snap[x])) :
         last' = MkLast("post_increment", "none", v, "none")
    /\ snap' = [snap EXCEPT ![x] = PreIncrement(snap[x])]
    /\ UNCHANGED <<constructed, _storage, _lock, heap, nextId, pc, tmp,
                   published, ref>>

\* `v = *it--` on a bound iterator that points at an element other than the
\* first.
deref_post_decrement(x) ==
    /\ snap[x].kind = "iter"
    /\ snap[x].h # Null
    /\ snap[x].it < snap[x].end
    /\ snap[x].it > 1
    /\ \E t \in Threads : pc[t] # "crashed"
    /\ \E v \in Deref(PostDecrement(snap[x])) :
         last' = MkLast("post_decrement", "none", v, "none")
    /\ snap' = [snap EXCEPT ![x] = PreDecrement(snap[x])]
    /\ UNCHANGED <<constructed, _storage, _lock, heap, nextId, pc, tmp,
                   published, ref>>

\* One turn of `for (auto v : c)`: it != end(), v = *it, ++it.
iterate(x) ==
    /\ snap[x].kind = "iter"
    /\ \E t \in Threads : pc[t] # "crashed"
    /\ ~IterEq(snap[x], Sentinel)
    /\ \E v \in Deref(snap[x]) :
         snap' = [snap EXCEPT ![x].out = Append(@, v), ![x].it = @ + 1]
    /\ last' = NoLast
    /\ UNCHANGED <<constructed, _storage, _lock, heap, nextId, pc, tmp,
                   published, ref>>

\* readonly_vector::assign, line 410: a null pointer becomes _empty_storage.
ViewStorage(h) == IF h = Null THEN EmptyStorage ELSE h

\* readonly_vector(const TStoragePtr&), lines 343-346.
readonly_vector(h) ==
    [NoSnap EXCEPT !.kind = "view", !.h = ViewStorage(h),
                   !.cap = StorageOf(ViewStorage(h))]

\* read_only_copy(): under the lock, readonly_vector(_storage).
read_only_copy(c, x) ==
    /\ Caller(c)
    /\ Acquire(c)
    /\ snap[x].kind = "none"
    /\ snap' = [snap EXCEPT ![x] = readonly_vector(_storage[c])]
    /\ last' = NoLast
    /\ UNCHANGED <<constructed, _storage, _lock, nextId, pc, tmp, ref>>
    /\ Settle(heap)

\* Iterator or view x goes out of scope.
release(x) ==
    /\ snap[x].kind # "none"
    /\ \E t \in Threads : pc[t] # "crashed"
    /\ snap' = [snap EXCEPT ![x] = NoSnap]
    /\ last' = NoLast
    /\ UNCHANGED <<constructed, _storage, _lock, nextId, pc, tmp, ref>>
    /\ Settle(heap)

\* readonly_vector::size() and operator[] / at() within range.
ViewSize(v) == Len(StorageOf(v.h))
ViewAt(v, i) == StorageOf(v.h)[i]

\* readonly_vector::empty()
empty(v) == StorageOf(v.h) = <<>>

\* A faulty at() whose range check lets pos == size() through.
atInclusive(v, pos) ==
    IF pos > ViewSize(v) THEN OutOfRange
    ELSE IF pos = ViewSize(v) THEN Default
    ELSE StorageOf(v.h)[pos + 1]

\* readonly_vector::at(pos): std::vector::at, pos counted from 0.
at(v, pos) ==
    IF pos >= ViewSize(v) THEN OutOfRange ELSE StorageOf(v.h)[pos + 1]

\* --------------------------------------------- direct access: lock(), data()
\* std::lock_guard<std::mutex> locker(c.lock())
lock(t, c) ==
    /\ CanCall(t, c)
    /\ Acquire(c)
    /\ _lock' = [_lock EXCEPT ![c] = t]
    /\ pc' = [pc EXCEPT ![t] = "direct"]
    /\ tmp' = [tmp EXCEPT ![t] = [NoTmp EXCEPT !.c = c]]
    /\ last' = NoLast
    /\ UNCHANGED <<constructed, _storage, heap, nextId, snap, published, ref>>

\* data() on a null _storage: _storage = TStoragePtr(new TStorage()).
data_alloc(t) ==
    /\ pc[t] = "direct"
    /\ _storage[tmp[t].c] = Null
    /\ nextId <= MaxStorages
    /\ _storage' = [_storage EXCEPT ![tmp[t].c] = nextId]
    /\ nextId' = nextId + 1
    /\ last' = NoLast
    /\ UNCHANGED <<constructed, _lock, pc, tmp, snap, ref>>
    /\ Settle(Alloc(nextId, <<>>))

\* data()[i] = v on the live Storage (example.cpp line 64), lock held.
data_store(t, i, v) ==
    /\ pc[t] = "direct"
    /\ _storage[tmp[t].c] # Null
    /\ i \in 1..Len(Contents(tmp[t].c))
    /\ ref' = [ref EXCEPT ![tmp[t].c][i] = v]
    /\ last' = MkLast("data_store", tmp[t].c, 0, "inplace")
    /\ UNCHANGED <<constructed, _storage, _lock, nextId, pc, tmp, snap>>
    /\ Settle([heap EXCEPT ![_storage[tmp[t].c]][i] = v])

\* The lock_guard goes out of scope.
unlock(t) ==
    /\ pc[t] = "direct"
    /\ _lock' = [_lock EXCEPT ![tmp[t].c] = NoThread]
    /\ pc' = [pc EXCEPT ![t] = "idle"]
    /\ tmp' = [tmp EXCEPT ![t] = NoTmp]
    /\ last' = NoLast
    /\ UNCHANGED <<constructed, _storage, heap, nextId, snap, published, ref>>

\* ------------------------------- the mutating methods, statement by statement
\* The method bodies above, by name; a is the element or the predicate.
OpRes(op, c, a) ==
    CASE op = "push_front" -> push_frontRes(c, a)
      [] op = "push_back" -> push_backRes(c, a)
      [] op = "emplace_back" -> emplace_backRes(c, a)
      [] op = "remove" -> removeRes(c, a)
      [] op = "removeFirst" -> removeFirstRes(c, a)
      [] op = "removeLast" -> removeLastRes(c, a)
      [] op = "clear" -> clearRes(c)

\* The same method on a plain sequence.
RefOp(op, s, a) ==
    CASE op = "push_front" -> <<a>> \o s
      [] op = "push_back" -> Append(s, a)
      [] op = "emplace_back" -> Append(s, a)
      [] op = "remove" -> RefRemove(s, a)
      [] op = "removeFirst" -> RefRemoveFirst(s, a)
      [] op = "removeLast" -> RefRemoveLast(s, a)
      [] op = "clear" -> <<>>

\* The first statement of every mutating method: TLocker locker(_lock).
locker(t, c) ==
    /\ CanCall(t, c)
    /\ Acquire(c)
    /\ _lock' = [_lock EXCEPT ![c] = t]
    /\ pc' = [pc EXCEPT ![t] = "locked"]
    /\ tmp' = [tmp EXCEPT ![t] = [NoTmp EXCEPT !.c = c]]
    /\ last' = NoLast
    /\ UNCHANGED <<constructed, _storage, heap, nextId, snap, published, ref>>

\* The method replaces the pointer: its copy branch has built a newStorage, or
\* found that nothing is left.
Replaces(c, res) == res.branch = "copy" /\ res.h # _storage[c]

\* The body of a method up to the assignment to _storage.  The copy branch
\* reads *_storage and fills the local newStorage; every other path (in place,
\* early return, reset) is complete with this step and returns.
body(t, op, a) ==
    LET c == tmp[t].c
        res == OpRes(op, c, a)
    IN  /\ pc[t] = "locked"
        /\ op \in {"push_front", "push_back", "emplace_back"} =>
              Len(Contents(c)) < MaxLen
        /\ res.next <= MaxStorages + 1
        /\ ref' = [ref EXCEPT ![c] = RefOp(op, @, a)]
        /\ nextId' = res.next
        /\ IF Replaces(c, res)
           THEN /\ pc' = [pc EXCEPT ![t] = "built"]
                /\ tmp' = [tmp EXCEPT ![t].h = res.h, ![t].op = op,
                                      ![t].ret = res.ret]
                /\ last' = NoLast
                /\ UNCHANGED <<_storage, _lock>>
           ELSE /\ _storage' = [_storage EXCEPT ![c] = res.h]
                /\ _lock' = [_lock EXCEPT ![c] = NoThread]
                /\ pc' = [pc EXCEPT ![t] = "idle"]
                /\ tmp' = [tmp EXCEPT ![t] = NoTmp]
                /\ last' = MkLast(op, c, res.ret, res.branch)
        /\ UNCHANGED <<constructed, snap>>
        /\ Settle(res.heap)

\* `_storage = newStorage` (lines 79, 100, 122, 168, 464) or `_storage.reset()`
\* (line 166), the return, and ~TLocker.
store_newStorage(t) ==
    /\ pc[t] = "built"
    /\ _storage' = [_storage EXCEPT ![tmp[t].c] = tmp[t].h]
    /\ _lock' = [_lock EXCEPT ![tmp[t].c] = NoThread]
    /\ pc' = [pc EXCEPT ![t] = "idle"]
    /\ tmp' = [tmp EXCEPT ![t] = NoTmp]
    /\ last' = MkLast(tmp[t].op, tmp[t].c, tmp[t].ret, "copy")
    /\ UNCHANGED <<constructed, nextId, snap, ref>>
    /\ Settle(heap)

\* ------------------------------------------------- methods that throw
\* remove's erase loop (lines 138-147) up to the predicate call that throws:
\* the first `calls` calls returned, and what they matched is erased already.
RECURSIVE EraseLoopUntil(_, _, _, _)
EraseLoopUntil(s, it, calls, P) ==
    IF calls = 0 \/ it > Len(s) THEN s
    ELSE IF s[it] \notin P THEN EraseLoopUntil(s, it + 1, calls - 1, P)
    ELSE EraseLoopUntil(Erase(s, it), it, calls - 1, P)

\* A faulty copy branch that assigns _storage = newStorage before filling it.
UnwoundAfterSwap(c, branch) ==
    Res(nextId, Alloc(nextId, <<>>), nextId + 1, Thrown, branch)

\* An exception leaves the method before `_storage = newStorage` (lines 79,
\* 100, 122, 168, 464) or before anything was written: newStorage, a local, is
\* destroyed by the unwinding and _storage was never assigned.
Unwound(c, branch) == Res(_storage[c], heap, nextId, Thrown, branch)

\* push_front / push_back / emplace_back throw: `new TStorage()`, reserve or a
\* copy of an element into newStorage fails in the copy branch; in the in-place
\* branch the std::vector fails to grow, which has no effect on it.
push_throwsRes(c) ==
    Unwound(c, IF SoleHolder(_storage[c]) THEN "inplace" ELSE "copy")

\* remove throws.  In place, on the k-th call of the predicate: the matches
\* among the elements before it are gone.  In the copy branch, on an
\* allocation, a predicate call or an element copy: all before line 168.
remove_throwsRes(c, P, k) ==
    LET h == _storage[c] IN
    IF SoleHolder(h)
    THEN Res(h, [heap EXCEPT ![h] = EraseLoopUntil(@, 1, k - 1, P)], nextId,
             Thrown, "inplace")
    ELSE Unwound(c, "copy")

\* removeFirst / removeLast throw: in the predicate under std::find_if, before
\* removeAt runs, or in removeAt's copy branch while newStorage is built.
removeAt_throwsRes(c) ==
    Unwound(c, IF SoleHolder(_storage[c]) THEN "inplace" ELSE "copy")

\* What is left in container c by a method that threw.
Left(c, res) == IF res.h = Null THEN <<>> ELSE res.heap[res.h]

\* ~TLocker runs as the exception unwinds the method: the whole call is one
\* critical section, as for a call that returns.
push_throws(c, op) ==
    Mutate(c, op, push_throwsRes(c), Left(c, push_throwsRes(c)))

\* The predicate is called only on a non-empty Storage (line 131).
remove_throws(c, P, k) ==
    /\ k \in 1..Len(Contents(c))
    /\ Mutate(c, "remove", remove_throwsRes(c, P, k),
              Left(c, remove_throwsRes(c, P, k)))

\* Lines 179 and 192: nothing is called on a null or empty Storage.
removeAt_throws(c, op) ==
    /\ Contents(c) # <<>>
    /\ Mutate(c, op, removeAt_throwsRes(c), Left(c, removeAt_throwsRes(c)))

\* ---------------------------------------------------------- specifications
Init ==
    /\ constructed = [c \in Containers |-> c = "A"]
    /\ _storage = [c \in Containers |-> Null]
    /\ _lock = [c \in Containers |-> NoThread]
    /\ heap = [h \in StorageIds |-> <<>>]
    /\ nextId = 1
    /\ pc = [t \in Threads |-> "idle"]
    /\ tmp = [t \in Threads |-> NoTmp]
    /\ snap = [x \in Snaps |-> NoSnap]
    /\ published = [h \in StorageIds |-> FALSE]
    /\ ref = [c \in Containers |-> <<>>]
    /\ last = NoLast

\* push_front, push_back, emplace_back, remove, removeFirst, removeLast, clear.
Mutators ==
    \/ \E c \in Containers, v \in Val : push_front(c, v)
    \/ \E c \in Containers, v \in Val : push_back(c, v)
    \/ \E c \in Containers, v \in Val : emplace_back(c, v)
    \/ \E c \in Containers, P \in Preds : remove(c, P)
    \/ \E c \in Containers, P \in Preds : removeFirst(c, P)
    \/ \E c \in Containers, P \in Preds : removeLast(c, P)
    \/ \E c \in Containers : clear(c)

\* begin() with the range-for loop, read_only_copy(), and their destruction.
Snapshots ==
    \/ \E c \in Containers, x \in Snaps : begin(c, x)
    \/ \E x \in Snaps : iterate(x)
    \/ \E c \in Containers, x \in Snaps : read_only_copy(c, x)
    \/ \E x \in Snaps : release(x)

\* The constructors of the second container, and operator= run by the
\* threads of T.
Copying(T) ==
    \/ \E c \in Containers : construct(c)
    \/ \E c \in Containers, src \in Containers : copy_construct(c, src)
    \/ \E t \in T, c \in Containers, src \in Containers :
          assign_lock_src(t, c, src)
    \/ \E t \in T : copy(t)
    \/ \E t \in T : assign_lock_dst(t)
    \/ \E t \in T : assign_store(t)
    \/ \E t \in T : assign_return(t)

\* exists, find_first, find_last.
Querying ==
    \/ \E t \in Threads, c \in Containers : query_copy(t, c)
    \/ \E t \in Threads, op \in Queries, P \in Preds : query_scan(t, op, P)

\* A thread holds lock() and writes through data().
Direct ==
    \/ \E t \in Threads, c \in Containers : lock(t, c)
    \/ \E t \in Threads : data_alloc(t)
    \/ \E t \in Threads, i \in 1..MaxLen, v \in Val : data_store(t, i, v)
    \/ \E t \in Threads : unlock(t)

\* Every method of the container except direct access.
Next == Mutators \/ Snapshots \/ Copying(Threads) \/ Querying

Spec == Init /\ [][Next]_vars

\* One container with its iterators and views.
SpecSnapshots == Init /\ [][Mutators \/ Snapshots]_vars

\* The value each container is given in the copying runs: an element of the
\* one that turns up in the other is then a change made through the wrong
\* container.
Own(c) == IF c = "A" THEN 1 ELSE 2

\* Two containers mutated by any thread while one thread runs assignments.
NextCopy ==
    \/ Copying({"t1"})
    \/ \E c \in Containers : push_front(c, Own(c))
    \/ \E c \in Containers, P \in Preds : remove(c, P)
    \/ \E c \in Containers : clear(c)

SpecCopy == Init /\ [][NextCopy]_vars

\* Two containers assigned to each other by two threads; the element values
\* play no part in the locking, so one value fills the containers.
NextAssign ==
    \/ Copying(Threads)
    \/ \E c \in Containers : push_back(c, 1)
    \/ \E c \in Containers : clear(c)

SpecAssign == Init /\ [][NextAssign]_vars

\* A thread inside operator= keeps running, and a std::mutex it waits for is
\* granted to it if it is free again and again.
FairAssign ==
    /\ SpecAssign
    /\ \A t \in Threads :
         /\ WF_vars(copy(t))
         /\ SF_vars(assign_lock_dst(t))
         /\ WF_vars(assign_store(t))
         /\ WF_vars(assign_return(t))

\* One container queried and mutated by two threads.
SpecQuery == Init /\ [][Mutators \/ Querying]_vars

\* One container with snapshots and direct access.
SpecDirect == Init /\ [][Mutators \/ Snapshots \/ Direct]_vars

\* A mutating method is left by an exception.
Failing ==
    \/ \E c \in Containers, op \in {"push_front", "push_back", "emplace_back"} :
          push_throws(c, op)
    \/ \E c \in Containers, P \in Preds, k \in 1..MaxLen : remove_throws(c, P, k)
    \/ \E c \in Containers, op \in {"removeFirst", "removeLast"} :
          removeAt_throws(c, op)

\* One container with snapshots, whose mutating methods may throw.
SpecFail == Init /\ [][Mutators \/ Snapshots \/ Failing]_vars

\* Two containers sharing Storages, with iterators and views, filled and
\* cleared.
NextClear ==
    \/ Snapshots
    \/ \E c \in Containers : construct(c)
    \/ \E c \in Containers, src \in Containers : copy_construct(c, src)
    \/ \E c \in Containers, v \in Val : push_back(c, v)
    \/ \E c \in Containers : clear(c)

SpecClear == Init /\ [][NextClear]_vars

\* A container that already holds MaxLen + 1 elements, as MaxLen + 1 pushes
\* with nobody else holding its Storage leave it.
InitFilled ==
    /\ constructed = [c \in Containers |-> c = "A"]
    /\ _storage = [c \in Containers |-> IF c = "A" THEN 1 ELSE Null]
    /\ _lock = [c \in Containers |-> NoThread]
    /\ heap \in {[h \in StorageIds |-> IF h = 1 THEN s ELSE <<>>] :
                    s \in [1..(MaxLen + 1) -> Val]}
    /\ nextId = 2
    /\ pc = [t \in Threads |-> "idle"]
    /\ tmp = [t \in Threads |-> NoTmp]
    /\ snap = [x \in Snaps |-> NoSnap]
    /\ published = [h \in StorageIds |-> FALSE]
    /\ ref = [c \in Containers |-> IF c = "A" THEN heap[1] ELSE <<>>]
    /\ last = NoLast

\* One full container with its iterators and views: removals have elements
\* on both sides of the one they take out.
SpecFilled == InitFilled /\ [][Mutators \/ Snapshots]_vars

\* The mutating methods called by the threads, statement by statement.
Calls ==
    \/ \E t \in Threads, c \in Containers : locker(t, c)
    \/ \E t \in Threads, v \in Val,
          op \in {"push_front", "push_back", "emplace_back"} : body(t, op, v)
    \/ \E t \in Threads, P \in Preds,
          op \in {"remove", "removeFirst", "removeLast"} : body(t, op, P)
    \/ \E t \in Threads : body(t, "clear", {})
    \/ \E t \in Threads : store_newStorage(t)

\* One container mutated by two threads while iterators and views are taken
\* and released.
SpecAtomic == Init /\ [][Calls \/ Snapshots]_vars

\* begin(), the postfix operators of the iterator, dereferenced, and the
\* iterator's destruction.
Postfix ==
    \/ \E c \in Containers, x \in Snaps : begin(c, x)
    \/ \E x \in Snaps : deref_post_increment(x)
    \/ \E x \in Snaps : deref_post_decrement(x)
    \/ \E x \in Snaps : release(x)

\* Iterators stepped by hand with it++ and it-- while the container changes.
SpecIter == Init /\ [][Mutators \/ Postfix]_vars

\* ------------------------------------------------------- what is checked
\* Storage h existed before and after the step and its contents changed: it
\* was written in place.
Modified(h) ==
    /\ UseCount(h) > 0
    /\ UseCount(h)' > 0
    /\ heap'[h] # heap[h]

\* s is an initial segment of u.
IsPrefix(s, u) == Len(s) <= Len(u) /\ s = SubSeq(u, 1, Len(s))

NoSnapshot == \A x \in Snaps : snap[x].kind = "none"

\* C1: a view returned by read_only_copy() keeps reporting the length and the
\* elements the container had when the view was taken, whatever push_front,
\* push_back, emplace_back, remove, removeFirst, removeLast and clear are
\* applied to the container afterwards.
C1_SnapshotIsolation ==
    \A x \in Snaps :
        snap[x].kind = "view" =>
            /\ ViewSize(snap[x]) = Len(snap[x].cap)
            /\ \A i \in 1..Len(snap[x].cap) : ViewAt(snap[x], i) = snap[x].cap[i]

\* Scenario D: a view of {1,2} is outstanding, remove(v == 2) has returned 1
\* and the container now holds {1}.
C1_Witness ==
    \E x \in Snaps :
        /\ snap[x].kind = "view"
        /\ snap[x].cap = <<1, 2>>
        /\ last.op = "remove"
        /\ last.ret = 1
        /\ Contents("A") = <<1>>

\* C2: a traversal started with begin() yields, in order, the elements the
\* container held at begin(), and compares equal to end() exactly after the
\* last of them, whatever mutations run between its steps; the container
\* itself holds what those mutations produce.
C2_IterationStability ==
    /\ \A x \in Snaps :
          snap[x].kind = "iter" =>
              /\ IsPrefix(snap[x].out, snap[x].cap)
              /\ IterEq(snap[x], Sentinel) <=> snap[x].out = snap[x].cap
    /\ \A c \in Containers : Contents(c) = ref[c]

\* Scenario E: the traversal of {1,2} has yielded 1 then 2 and reached end()
\* while remove(v == 2) and push_front(2) left the container as {2,1}.
C2_Witness ==
    \E x \in Snaps :
        /\ snap[x].kind = "iter"
        /\ snap[x].out = <<1, 2>>
        /\ IterEq(snap[x], Sentinel)
        /\ last.op = "push_front"
        /\ Contents("A") = <<2, 1>>

\* C3: a Storage is written in place only while its holder count is 1; this
\* includes the writes made through data() under lock().
C3_InPlaceOnlyWhenSoleHolder ==
    [][\A h \in StorageIds : Modified(h) => UseCount(h) = 1]_vars

\* C4: a Storage that has had two or more holders is never written in place
\* again, not even after its holder count is back to 1.
C4_PostPublishImmutable ==
    [][\A h \in StorageIds : published[h] => ~Modified(h)]_vars

\* C4 as amended: a Storage is not written in place by the mutating methods
\* for as long as it has two or more holders; a Storage that was shared and is
\* held by one container only again is written in place by that container.
C4_ImmutableWhileShared ==
    [][\A h \in StorageIds :
          (published[h] /\ UseCount(h) >= 2) => heap'[h] = heap[h]]_vars

\* A Storage that has been shared is held by the container alone again, and a
\* mutating method has just written it in place.
C4_Witness ==
    /\ last.op \in {"push_front", "push_back", "emplace_back", "remove",
                    "removeFirst", "removeLast"}
    /\ last.branch = "inplace"
    /\ _storage[last.c] # Null
    /\ published[_storage[last.c]]
    /\ UseCount(_storage[last.c]) = 1

\* C5: with no snapshot outstanding, the container holds what a plain
\* sequence holds after the same operations in the same order.
C5_SequentialConsistency ==
    NoSnapshot => \A c \in Containers : Contents(c) = ref[c]

\* Scenario A: push_back(1) then emplace_back(2) on an empty container.
C5_Witness ==
    /\ NoSnapshot
    /\ last.op = "emplace_back"
    /\ last.branch = "inplace"
    /\ Contents("A") = <<1, 2>>

\* Number of elements of s that predicate P accepts.
Matching(s, P) == Cardinality({i \in 1..Len(s) : s[i] \in P})

\* C6: remove(predicate) returns the number of elements the predicate accepts
\* at the call, and leaves exactly the other elements, in their order; in the
\* in-place branch and in the copy branch alike.
C6_RemoveCountsAndFilters ==
    [][\A c \in Containers, P \in Preds :
          (last'.op = "remove" /\ last'.c = c /\ remove(c, P)) =>
              /\ last'.ret = Matching(Contents(c), P)
              /\ Contents(c)' = SelectSeq(Contents(c), LAMBDA v : v \notin P)]_vars

\* remove(v == 1) on {1,2} held by the container alone has returned 1 and left
\* {2}.
C6_Witness ==
    /\ last.op = "remove"
    /\ last.branch = "inplace"
    /\ last.ret = 1
    /\ Contents(last.c) = <<2>>

RemoveFamily == {"remove", "removeFirst", "removeLast"}

\* C7: when remove, removeFirst or removeLast has removed the last remaining
\* elements, the container's pointer is null, not a pointer to an empty
\* Storage.
C7_NullAfterEmptyingRemoval ==
    (/\ last.op \in RemoveFamily
     /\ last.ret > 0
     /\ Contents(last.c) = <<>>) => _storage[last.c] = Null

\* What exists / find_first / find_last return for the Storage captured by
\* copy(): a null capture is the empty sequence.
CapturedResult(op, h, P) ==
    ScanResult(op, IF h = Null THEN <<>> ELSE heap[h], P)

\* C8: exists, find_first and find_last return what the scan of the Storage
\* captured by copy() gives, whatever happens to the container between the
\* capture and the return.
C8_ResultFromCapturedOnly ==
    [][\A t \in Threads, op \in Queries, P \in Preds :
          query_scan(t, op, P) =>
              last'.ret = CapturedResult(op, tmp[t].h, P)]_vars

MutatorOps == {"push_front", "push_back", "emplace_back", "remove",
               "removeFirst", "removeLast", "clear"}

\* C9: copy construction and operator= hand the destination the pointer the
\* source held when copy() read it, allocate nothing and leave every Storage
\* as it is, the pointer gaining one holder; and a mutating method of one
\* container never changes what the other one holds.
C9_CopySharesThenDiverges ==
    [][/\ \A c, src \in Containers :
             copy_construct(c, src) =>
                 /\ _storage'[c] = _storage[src]
                 /\ nextId' = nextId
                 /\ \A h \in StorageIds : ~Modified(h)
                 /\ _storage[src] # Null =>
                        UseCount(_storage[src])' = UseCount(_storage[src]) + 1
       /\ \A t \in Threads :
             copy(t) => tmp'[t].h = _storage[tmp[t].src]
       /\ \A t \in Threads :
             assign_store(t) =>
                 /\ _storage'[tmp[t].c] = tmp[t].h
                 /\ nextId' = nextId
                 /\ \A h \in StorageIds : ~Modified(h)
                 /\ (tmp[t].h # Null /\ _storage[tmp[t].c] # tmp[t].h) =>
                        UseCount(tmp[t].h)' = UseCount(tmp[t].h) + 1
       /\ \A c \in Containers :
             (last'.op \in MutatorOps /\ last'.c # c) =>
                 Contents(c)' = Contents(c)]_vars

\* Scenario B: B was made from A = {1}; push_front(2) on B took the copy
\* branch, B is {2,1} and A still {1}.
C9_Witness ==
    /\ constructed["B"]
    /\ last.op = "push_front"
    /\ last.c = "B"
    /\ last.branch = "copy"
    /\ Contents("B") = <<2, 1>>
    /\ Contents("A") = <<1>>

AssignStages == {"copy_locked", "copied", "assign_locked", "assigned"}

\* C10: no thread ever holds the locks of two containers, and every
\* assignment that has started returns, also A = B against B = A and A = A.
C10_OneLockAtATimeNoDeadlock ==
    /\ [](\A t \in Threads :
             Cardinality({c \in Containers : _lock[c] = t}) <= 1)
    /\ \A t \in Threads : (pc[t] \in AssignStages) ~> (pc[t] = "idle")

\* t1 runs A = B and has released B's lock; t2 runs B = A and holds A's lock,
\* the lock t1 needs next.
C10_Witness ==
    /\ pc["t1"] = "copied"
    /\ tmp["t1"].c = "A"
    /\ pc["t2"] = "copy_locked"
    /\ tmp["t2"].c = "B"
    /\ tmp["t2"].src = "A"
    /\ _lock["A"] = "t2"

FailableOps == {"push_front", "push_back", "emplace_back", "remove",
                "removeFirst", "removeLast"}

C12_ClearDropsOnlyOwnHandle ==
    [][\A c \in Containers :
          (last'.op = "clear" /\ last'.c = c) =>
              /\ _storage'[c] = Null
              /\ \A P \in Preds :
                    ScanOutcomes("exists", _storage[c], _storage[c], P)' = {0}
              /\ IterEq(BeginOf(c), Sentinel)'
              /\ ViewSize(readonly_vector(_storage[c]))' = 0
              /\ snap' = snap
              /\ \A x \in Snaps :
                    snap[x].h # Null =>
                        StorageOf(snap[x].h)' = StorageOf(snap[x].h)
              /\ \A d \in Containers \ {c} : Contents(d)' = Contents(d)]_vars

\* clear() has run on A while a view and container B held A's Storage {1,2}:
\* A is empty, the view and B still read {1,2}.
C12_Witness ==
    \E x \in Snaps :
        /\ last.op = "clear"
        /\ last.c = "A"
        /\ _storage["A"] = Null
        /\ snap[x].kind = "view"
        /\ snap[x].cap = <<1, 2>>
        /\ StorageOf(snap[x].h) = <<1, 2>>
        /\ constructed["B"]
        /\ _storage["B"] = snap[x].h
        /\ Contents("B") = <<1, 2>>

\* The elements of s, by position, that predicate P accepts.
Matches(s, P) == {i \in 1..Len(s) : s[i] \in P}

\* The first and the last element of s accepted by P, Default if there is none.
FirstMatch(s, P) ==
    IF Matches(s, P) = {} THEN Default
    ELSE s[CHOOSE i \in Matches(s, P) : \A j \in Matches(s, P) : i <= j]

LastMatch(s, P) ==
    IF Matches(s, P) = {} THEN Default
    ELSE s[CHOOSE i \in Matches(s, P) : \A j \in Matches(s, P) : i >= j]

\* C13: find_first returns the first element of the container the predicate
\* accepts, find_last the last one, and each returns the default exactly when
\* the container has no such element (an empty container included).  The
\* container is the one the call captured, not changed before the call returns.
C13_FindFirstLast ==
    [][\A t \in Threads, P \in Preds :
          /\ (/\ last'.op = "find_first"
              /\ pc[t] = "captured"
              /\ _storage[tmp[t].c] = tmp[t].h
              /\ query_scan(t, "find_first", P)) =>
                 /\ last'.ret = FirstMatch(Contents(tmp[t].c), P)
                 /\ last'.ret = Default <=> Matches(Contents(tmp[t].c), P) = {}
          /\ (/\ last'.op = "find_last"
              /\ pc[t] = "captured"
              /\ _storage[tmp[t].c] = tmp[t].h
              /\ query_scan(t, "find_last", P)) =>
                 /\ last'.ret = LastMatch(Contents(tmp[t].c), P)
                 /\ last'.ret = Default <=> Matches(Contents(tmp[t].c), P) = {}]_vars

\* find_last has returned 2 from {1,2}: with a predicate accepting both
\* elements or only the second.
C13_Witness ==
    /\ last.op = "find_last"
    /\ last.ret = 2
    /\ Contents(last.c) = <<1, 2>>

\* C14: read_only_copy() never returns a view with a null pointer; taken from
\* a container whose pointer is null, the view holds the shared empty Storage
\* and reports size 0 and empty; and at(pos) on a view fails with out_of_range
\* exactly when pos >= size, returning the element at pos otherwise.
C14_ViewNeverNullAtChecked ==
    /\ [](\A x \in Snaps :
             snap[x].kind = "view" =>
                 /\ snap[x].h # Null
                 /\ \A pos \in 0..(MaxLen + 1) :
                       /\ at(snap[x], pos) = OutOfRange <=> pos >= ViewSize(snap[x])
                       /\ pos < Len(snap[x].cap) =>
                             at(snap[x], pos) = snap[x].cap[pos + 1])
    /\ [][\A c \in Containers, x \in Snaps :
             (/\ snap'[x].kind = "view"
              /\ _storage[c] = Null
              /\ read_only_copy(c, x)) =>
                 /\ snap'[x].h = EmptyStorage
                 /\ ViewSize(snap[x])' = 0
                 /\ empty(snap[x])']_vars

\* A view was taken from a container whose pointer was null, after the
\* container had held elements: it holds the shared empty Storage, and at(0)
\* fails.
C14_Witness ==
    \E x \in Snaps :
        /\ snap[x].kind = "view"
        /\ snap[x].h = EmptyStorage
        /\ at(snap[x], 0) = OutOfRange
        /\ _storage["A"] = Null
        /\ nextId > 1

\* Sequence s without its element at position i.
Without(s, i) == [k \in 1..(Len(s) - 1) |-> IF k < i THEN s[k] ELSE s[k + 1]]

\* The least and the greatest member of a non-empty set of positions.
Least(S) == CHOOSE i \in S : \A j \in S : i <= j
Greatest(S) == CHOOSE i \in S : \A j \in S : i >= j

\* C15: removeFirst removes exactly the first element the predicate accepts
\* and removeLast exactly the last one, the others keeping their order, and
\* returns true; with no such element it returns false and leaves the
\* container as it is.  Sole holder, shared Storage and single element alike.
C15_RemoveFirstLast ==
    [][\A c \in Containers, P \in Preds :
          /\ (last'.op = "removeFirst" /\ last'.c = c /\ removeFirst(c, P)) =>
                IF Matches(Contents(c), P) = {}
                THEN /\ last'.ret = 0
                     /\ _storage'[c] = _storage[c]
                     /\ Contents(c)' = Contents(c)
                ELSE /\ last'.ret = 1
                     /\ Contents(c)' =
                           Without(Contents(c), Least(Matches(Contents(c), P)))
          /\ (last'.op = "removeLast" /\ last'.c = c /\ removeLast(c, P)) =>
                IF Matches(Contents(c), P) = {}
                THEN /\ last'.ret = 0
                     /\ _storage'[c] = _storage[c]
                     /\ Contents(c)' = Contents(c)
                ELSE /\ last'.ret = 1
                     /\ Contents(c)' =
                           Without(Contents(c), Greatest(Matches(Contents(c), P)))
      ]_vars

\* removeLast has run in the copy branch, a view of the container's earlier
\* contents being outstanding, and has taken out an element that had
\* neighbours on both sides: {1,2,1} became {1,1}.
C15_Witness ==
    \E x \in Snaps :
        /\ snap[x].kind = "view"
        /\ snap[x].cap = <<1, 2, 1>>
        /\ last.op = "removeLast"
        /\ last.branch = "copy"
        /\ last.ret = 1
        /\ Contents(last.c) = <<1, 1>>

\* C16: a remove whose predicate accepts no element returns 0 and leaves the
\* container's pointer as it was: the same Storage, with the same holder
\* count and contents, and no Storage allocated; sole holder or shared.
C16_RemoveNoMatchKeepsHandle ==
    [][\A c \in Containers, P \in Preds :
          (/\ last'.op = "remove"
           /\ last'.c = c
           /\ Matches(Contents(c), P) = {}
           /\ remove(c, P)) =>
              /\ last'.ret = 0
              /\ _storage'[c] = _storage[c]
              /\ UseCount(_storage[c])' = UseCount(_storage[c])
              /\ heap' = heap
              /\ nextId' = nextId]_vars

\* remove has returned 0 from its copy branch on {1,2}, which an iterator or
\* view shares with the container.
C16_Witness ==
    \E x \in Snaps :
        /\ last.op = "remove"
        /\ last.branch = "copy"
        /\ last.ret = 0
        /\ Contents(last.c) = <<1, 2>>
        /\ snap[x].h = _storage[last.c]

\* Iterator i is bound to a Storage (it is not the iterator end() returns).
Bound(i) == i.h # Null

\* C17: two end() iterators are equal; an iterator bound to a Storage equals
\* end(), on either side of ==, exactly when its cursor is at the end it
\* captured; two iterators bound to the same Storage are equal exactly when
\* their cursors are at the same position; and what begin() returns equals
\* end() exactly when the container is empty, whether its pointer is null or
\* refers to an empty Storage.
C17_IteratorEquality ==
    /\ IterEq(Sentinel, Sentinel)
    /\ \A x \in Snaps :
          snap[x].kind = "iter" =>
              /\ ~Bound(snap[x]) =>
                    IterEq(snap[x], Sentinel) /\ IterEq(Sentinel, snap[x])
              /\ Bound(snap[x]) =>
                    /\ IterEq(snap[x], Sentinel) <=> snap[x].it = snap[x].end
                    /\ IterEq(Sentinel, snap[x]) <=> snap[x].it = snap[x].end
                    /\ IterEq(snap[x], snap[x])
              /\ (Bound(snap[x]) /\ snap[x].it # snap[x].end) =>
                    /\ ~IterEq(snap[x], PreIncrement(snap[x]))
                    /\ ~IterEq(PreIncrement(snap[x]), snap[x])
                    /\ IterEq(PreIncrement(snap[x]), PreIncrement(snap[x]))
              /\ \A c \in Containers :
                    (Bound(snap[x]) /\ _storage[c] = snap[x].h) =>
                        /\ IterEq(snap[x], BeginOf(c)) <=> snap[x].it = 1
                        /\ IterEq(BeginOf(c), snap[x]) <=> snap[x].it = 1
              /\ snap[x].out = <<>> =>
                    (IterEq(snap[x], Sentinel) <=> snap[x].cap = <<>>)
    /\ \A c \in Containers :
          /\ IterEq(BeginOf(c), Sentinel) <=> Contents(c) = <<>>
          /\ IterEq(Sentinel, BeginOf(c)) <=> Contents(c) = <<>>

\* begin() was called on a container whose pointer refers to an empty Storage
\* (left by a remove in place): the iterator is bound and equals end().
C17_Witness ==
    \E x \in Snaps :
        /\ snap[x].kind = "iter"
        /\ Bound(snap[x])
        /\ snap[x].cap = <<>>
        /\ snap[x].it = snap[x].end
        /\ IterEq(snap[x], Sentinel)

\* Program points of operator= at which storage_copy holds what copy() returned.
AfterCopy == {"copied", "assign_locked", "assigned"}

\* C18: the pointer operator= stores in the destination is the one the source
\* held at the instant of copy(), the first critical section, and the
\* destination then holds what the source held at that instant, whatever
\* writers have done to the source since.
C18_AssignsSourceAsOfCopy ==
    /\ [](\A t \in Threads :
             pc[t] \in AfterCopy =>
                 tmp[t].cap = IF tmp[t].h = Null THEN <<>> ELSE heap[tmp[t].h])
    /\ [][\A t \in Threads :
             /\ (pc[t] = "copy_locked" /\ copy(t)) =>
                   tmp'[t].h = _storage[tmp[t].src]
             /\ (pc[t] = "assign_locked" /\ assign_store(t)) =>
                   /\ _storage'[tmp[t].c] = tmp[t].h
                   /\ Contents(tmp[t].c)' = tmp[t].cap]_vars

\* B = A has stored A's {1} in B, and A, written after copy(), holds {1,1}.
C18_Witness ==
    /\ pc["t1"] = "assigned"
    /\ tmp["t1"].c = "B"
    /\ tmp["t1"].cap = <<1>>
    /\ _storage["B"] = tmp["t1"].h
    /\ Contents("B") = <<1>>
    /\ Contents("A") = <<1, 1>>

\* The threads inside a mutating method of container c.
Inside(c) == {t \in Threads : pc[t] \in {"locked", "built"} /\ tmp[t].c = c}

\* C19: the mutating methods of a container exclude each other, and no update
\* is lost: whenever no thread is inside one of them, the container holds
\* what a plain sequence holds to which the same calls were applied one at a
\* time, in the order in which the calls got the lock.
C19_NoLostUpdate ==
    \A c \in Containers :
        /\ Cardinality(Inside(c)) <= 1
        /\ Inside(c) = {} => Contents(c) = ref[c]

\* A push has gone through its copy branch, statement by statement, while a
\* view of the one-element container was outstanding; both updates are in
\* the container and the view still shows the first one alone.
C19_Witness ==
    \E x \in Snaps :
        /\ snap[x].kind = "view"
        /\ snap[x].cap = <<1>>
        /\ last.op = "push_back"
        /\ last.branch = "copy"
        /\ Inside("A") = {}
        /\ Contents("A") = <<1, 2>>
        /\ ref["A"] = <<1, 2>>

\* C20: on a bound iterator, it++ moves the iterator one position forward and
\* it-- one position back, and what they return is positioned where the
\* iterator was before the step: *it++ and *it-- read the element the
\* iterator pointed at before it moved.
C20_PostfixReturnsOldPosition ==
    [][\A x \in Snaps :
          /\ (last'.op = "post_increment" /\ deref_post_increment(x)) =>
                /\ snap'[x].it = snap[x].it + 1
                /\ last'.ret = snap[x].cap[snap[x].it]
          /\ (last'.op = "post_decrement" /\ deref_post_decrement(x)) =>
                /\ snap'[x].it = snap[x].it - 1
                /\ last'.ret = snap[x].cap[snap[x].it]]_vars

====
